---- MODULE Spec2Model ----
(***************************************************************************)
(* A model of smallsh (src/smallsh.c): the read / wordsplit / expand /     *)
(* parse_command / execute loop of main, the two built-ins, the job        *)
(* executor, the background reaper bg_handler and the SIGINT / SIGTSTP     *)
(* dispositions, together with the child processes the shell forks.        *)
(*                                                                         *)
(* A C string is a sequence of one-character strings; the terminating      *)
(* '\0' is the value NUL.  A C array keeps its 0-based indices.            *)
(***************************************************************************)
EXTENDS Integers, Sequences, FiniteSets, TLC

\* ------------------------------------------------------------------ bounds
MaxChildren == 2     \* children forked over the whole run
MaxWordLen == 4      \* length of the words expand is compared on

\* --------------------------------------------------------- program constants
MAX_WORDS == 5       \* src/smallsh.c:25 (a build parameter, -DMAX_WORDS=5)
EXIT_FAILURE == 1
SIGCONT == 18
ShellPid == 7        \* getpid() of the interpreter
ShellPgrp == 5       \* getpgrp() of the interpreter

\* ------------------------------------------------------------- C strings
NUL == "NUL"                 \* the byte '\0'
NULL == <<"NULL">>           \* the null pointer (no string has a 4-letter byte)
Space == {" ", "\t", "\n"}   \* isspace(), as far as the input alphabet goes

isspace(ch) == ch \in Space

\* The bytes of s up to (not including) its first NUL: s read as a C string.
RECURSIVE CStr(_)
CStr(s) ==
    IF s = <<>> \/ Head(s) = NUL THEN <<>> ELSE <<Head(s)>> \o CStr(Tail(s))

\* *(p): the byte at 1-based position p of the buffer mem; the buffer ends
\* with a terminator that is not stored in mem.
At(mem, p) == IF p >= 1 /\ p <= Len(mem) THEN mem[p] ELSE NUL

Digit == <<"0", "1", "2", "3", "4", "5", "6", "7", "8", "9">>

\* sprintf(int_buf, "%d", n)
RECURSIVE sprintf_d(_)
sprintf_d(n) ==
    IF n < 0 THEN <<"-">> \o sprintf_d(0 - n)
    ELSE IF n < 10 THEN <<Digit[n + 1]>>
    ELSE sprintf_d(n \div 10) \o <<Digit[(n % 10) + 1]>>

\* The value of ch as a digit, 99 when it is none.
DigitVal(ch) ==
    CASE ch = "0" -> 0 [] ch = "1" -> 1 [] ch = "2" -> 2 [] ch = "3" -> 3
      [] ch = "4" -> 4 [] ch = "5" -> 5 [] ch = "6" -> 6 [] ch = "7" -> 7
      [] ch = "8" -> 8 [] ch = "9" -> 9
      [] ch \in {"a", "A"} -> 10 [] ch \in {"b", "B"} -> 11
      [] ch \in {"c", "C"} -> 12 [] ch \in {"d", "D"} -> 13
      [] ch \in {"e", "E"} -> 14 [] ch \in {"f", "F"} -> 15
      [] OTHER -> 99

\* The digit loop of strtol: from position p with value v so far.
RECURSIVE strtol_digits(_, _, _, _)
strtol_digits(s, p, base, v) ==
    IF DigitVal(At(s, p)) < base
    THEN strtol_digits(s, p + 1, base, v * base + DigitVal(At(s, p)))
    ELSE [val |-> v, end |-> p]

RECURSIVE SkipSpace(_, _)
SkipSpace(s, p) == IF isspace(At(s, p)) THEN SkipSpace(s, p + 1) ELSE p

\* strtol(s, &endptr, 0): [val, end], end the position endptr points at
\* (Len(s) + 1 is the terminator).  Base 0: 0x/0X is hexadecimal, a leading
\* 0 octal, anything else decimal; no digits leaves endptr at s.
strtol(s) ==
    LET p0 == SkipSpace(s, 1)
        neg == At(s, p0) = "-"
        p1 == IF At(s, p0) \in {"-", "+"} THEN p0 + 1 ELSE p0
        hex == /\ At(s, p1) = "0"
               /\ At(s, p1 + 1) \in {"x", "X"}
               /\ DigitVal(At(s, p1 + 2)) < 16
        base == IF hex THEN 16 ELSE IF At(s, p1) = "0" THEN 8 ELSE 10
        p2 == IF hex THEN p1 + 2 ELSE p1
        r == strtol_digits(s, p2, base, 0)
    IN  IF r.end = p2 THEN [val |-> 0, end |-> 1]
        ELSE [val |-> IF neg THEN 0 - r.val ELSE r.val, end |-> r.end]

\* strchr(s + p, ch) for a ch other than '\0': its position, 0 (NULL) if none.
RECURSIVE strchr(_, _, _)
strchr(s, p, ch) ==
    IF At(s, p) = NUL THEN 0
    ELSE IF At(s, p) = ch THEN p
    ELSE strchr(s, p + 1, ch)

\* ------------------------------------------------------------- wordsplit
\* The inner loop of wordsplit (the for at line 248): reads one word from
\* position c; w is the bytes stored in words[wind] so far.  A backslash
\* advances c before the byte is copied, whatever that byte is.
RECURSIVE ws_word(_, _, _)
ws_word(mem, c, w) ==
    IF At(mem, c) = NUL \/ isspace(At(mem, c)) THEN [c |-> c, w |-> w]
    ELSE LET c1 == IF At(mem, c) = "\\" THEN c + 1 ELSE c
         IN  ws_word(mem, c1 + 1, w \o <<At(mem, c1)>>)

\* ws_loop as it would be without the test for '#' at line 246
\* (a faulty variant; C14 tells it from ws_loop).
RECURSIVE ws_loop_without_comment(_, _, _, _)
ws_loop_without_comment(mem, c, wind, ws) ==
    IF At(mem, c) = NUL \/ wind = MAX_WORDS
    THEN [wind |-> wind, words |-> ws, c |-> c]
    ELSE LET r == ws_word(mem, c, <<>>)
         IN  ws_loop_without_comment(mem, SkipSpace(mem, r.c), wind + 1,
                                     [ws EXCEPT ![wind] = CStr(r.w)])

\* The outer loop of wordsplit (the for at line 241).
RECURSIVE ws_loop(_, _, _, _)
ws_loop(mem, c, wind, ws) ==
    IF At(mem, c) = NUL \/ wind = MAX_WORDS \/ At(mem, c) = "#"
    THEN [wind |-> wind, words |-> ws, c |-> c]
    ELSE LET r == ws_word(mem, c, <<>>)
         IN  ws_loop(mem, SkipSpace(mem, r.c), wind + 1,
                     [ws EXCEPT ![wind] = CStr(r.w)])

\* wordsplit(line): mem is the memory getline's buffer occupies, the line,
\* its terminator and whatever bytes follow it; ws is words[] on entry.
\* Returns the count, the new words[] and the last position dereferenced.
wordsplit(mem, ws) == ws_loop(mem, SkipSpace(mem, 1), 0, ws)

\* ---------------------------------------------------------------- expand
\* getenv and setenv on the environment, a function from names to values.
getenv(env, name) == IF name \in DOMAIN env THEN env[name] ELSE NULL

setenv(env, name, val) == [env EXCEPT ![name] = val]

NoParam == [ret |-> NUL, start |-> 0, end |-> 0]

\* param_scan as it would be if "${" with no later '}' were a parameter
\* reaching to the end of the word (a faulty variant; C15 tells it from
\* param_scan).
RECURSIVE param_scan_open_brace(_, _)
param_scan_open_brace(word, p) ==
    LET s == strchr(word, p, "$")
        e == strchr(word, s + 2, "}")
    IN  IF At(word, p) = NUL \/ s = 0 THEN NoParam
        ELSE IF At(word, s + 1) \in {"$", "!", "?"}
        THEN [ret |-> At(word, s + 1), start |-> s, end |-> s + 2]
        ELSE IF At(word, s + 1) = "{"
        THEN [ret |-> "{", start |-> s,
              end |-> IF e # 0 THEN e + 1 ELSE Len(word) + 1]
        ELSE param_scan_open_brace(word, s + 1)

\* param_scan(word + p, &start, &end): the next parameter at or after
\* position p, as [ret, start, end]; positions 0 are null pointers.  (The
\* static prev is only read for a null word, which expand never passes.)
RECURSIVE param_scan(_, _)
param_scan(word, p) ==
    LET s == strchr(word, p, "$")
        e == strchr(word, s + 2, "}")
    IN  IF At(word, p) = NUL \/ s = 0 THEN NoParam
        ELSE IF At(word, s + 1) \in {"$", "!", "?"}
        THEN [ret |-> At(word, s + 1), start |-> s, end |-> s + 2]
        ELSE IF At(word, s + 1) = "{" /\ e # 0
        THEN [ret |-> "{", start |-> s, end |-> e + 1]
        ELSE param_scan(word, s + 1)

\* build_str(start, end) appending to base: the bytes [start, end) of word,
\* or all of word from start when end is NULL.
build_str(base, word, start, end) ==
    base \o SubSeq(word, start, IF end = 0 THEN Len(word) ELSE end - 1)

\* The value expand substitutes for the parameter r of word.
ParamValue(word, r, env) ==
    LET name == SubSeq(word, r.start + 2, r.end - 2)
        v == IF r.ret = "{" THEN getenv(env, name) ELSE getenv(env, <<r.ret>>)
    IN  IF v # NULL THEN v
        ELSE IF r.ret = "?" THEN <<"0">>
        ELSE <<>>

\* The while loop of expand (line 354).
RECURSIVE expand_loop(_, _, _, _)
expand_loop(word, r, base, env) ==
    IF r.ret = NUL THEN base
    ELSE LET r1 == param_scan(word, r.end)
         IN  expand_loop(word, r1,
                 build_str(base \o ParamValue(word, r, env), word, r.end, r1.start),
                 env)

\* expand(word)
expand(word, env) ==
    LET r == param_scan(word, 1)
    IN  expand_loop(word, r, build_str(<<>>, word, 1, r.start), env)

\* --------------------------------------------------------- parse_command
RedirOps == {<<">">>, <<"<">>, <<">", ">">>}

UNINIT == <<"UNINIT">>       \* a slot of malloc'ed memory never written
BADPTR == <<"BADPTR">>       \* a pointer that cannot be dereferenced
SIZE_MAX == 2147483647       \* (size_t)-1; stands for 2^64 - 1

\* --n on a size_t
size_dec(n) == IF n = 0 THEN SIZE_MAX ELSE n - 1

\* The copying loop of parse_command (line 418): an operator and the token
\* after it are skipped, every other token is copied.  ops is the set of
\* indices taken as operators, copied the indices copied to the vector.
RECURSIVE pc_loop(_, _, _, _, _, _, _)
pc_loop(ws, n, i, argv, argc, ops, copied) ==
    IF i >= n THEN [argv |-> argv, argc |-> argc, ops |-> ops, copied |-> copied]
    ELSE IF ws[i] \in RedirOps
    THEN pc_loop(ws, n, i + 2, argv, argc, ops \cup {i}, copied)
    ELSE pc_loop(ws, n, i + 1, [argv EXCEPT ![argc] = ws[i]], argc + 1,
                 ops, copied \cup {i})

\* parse_command(nwords, words_argv) on words[] = ws.  words_argv has
\* nwords + 1 slots.  With no argument left the test at line 431 reads
\* words_argv[-1], outside the allocation: junk is what that slot holds
\* (BADPTR: strcmp faults).  Returns the count, the vector, bg_flag and
\* whether the call faulted.
parse_command(n, ws, junk) ==
    LET r == pc_loop(ws, n, 0, [i \in 0..n |-> UNINIT], 0, {}, {})
        lastarg == IF r.argc = 0 THEN junk ELSE r.argv[r.argc - 1]
    IN  IF lastarg = BADPTR
        THEN [fault |-> TRUE, argc |-> r.argc, argv |-> r.argv, bg_flag |-> 0]
        ELSE IF lastarg = <<"&">>
        THEN [fault |-> FALSE, argc |-> size_dec(r.argc),
              argv |-> IF r.argc = 0 THEN r.argv
                       ELSE [r.argv EXCEPT ![r.argc - 1] = NULL],
              bg_flag |-> 1]
        ELSE [fault |-> FALSE, argc |-> r.argc,
              argv |-> [r.argv EXCEPT ![r.argc] = NULL],
              bg_flag |-> 0]

\* ------------------------------------------------------------- built-ins
Q == <<"?">>                        \* the name of $?
BANG == <<"!">>                     \* the name of $!
DOLLAR == <<"$">>                   \* the name of $$
HOME == <<"H", "O", "M", "E">>
V == <<"V">>                        \* a variable the interpreter inherits

Dirs == {<<"/">>}                   \* the directories chdir can enter

Msg(m, p, v) == [msg |-> m, pid |-> p, val |-> v]   \* a line on stderr

chdir_ok(path) == path \in Dirs

\* builtin_cd(argv, argc): the new environment, working directory and the
\* diagnostics printed.
builtin_cd(argv, argc, env, dir) ==
    IF argc = 1
    THEN IF getenv(env, HOME) # NULL
         THEN [env |-> env,
               cwd |-> IF chdir_ok(getenv(env, HOME)) THEN getenv(env, HOME) ELSE dir,
               diag |-> {}]
         ELSE [env |-> setenv(env, Q, <<"1">>), cwd |-> dir,
               diag |-> {Msg("cd: HOME not set", 0, 0)}]
    ELSE IF argc > 2
    THEN [env |-> setenv(env, Q, <<"1">>), cwd |-> dir,
          diag |-> {Msg("cd: too many arguments", 0, 0)}]
    ELSE IF ~chdir_ok(argv[1])
    THEN [env |-> setenv(env, Q, <<"1">>), cwd |-> dir,
          diag |-> {Msg("chdir failed", 0, 0)}]
    ELSE [env |-> env, cwd |-> argv[1], diag |-> {}]

\* builtin_exit as it would be if exit without an argument ignored $?
\* (a faulty variant; C9 tells it from builtin_exit).
builtin_exit_ignoring_status(argv, argc, env) ==
    [env |-> env,
     exit_code |-> IF argc = 2 THEN strtol(argv[1]).val ELSE 0,
     diag |-> {}]

\* builtin_exit(argv, argc) up to its call of exit: the environment, the
\* value of exit_code passed to exit, and the diagnostics printed.  No
\* branch returns: line 510 is reached on every path.
builtin_exit(argv, argc, env) ==
    LET many == argc > 2
        env1 == IF many THEN setenv(env, Q, <<"1">>) ELSE env
        d1 == IF many THEN {Msg("exit: too many arguments", 0, 0)} ELSE {}
        r == strtol(argv[1])
        bad == At(argv[1], r.end) # NUL
        st == getenv(env1, Q)
    IN  IF argc = 2
        THEN [env |-> IF bad THEN setenv(env1, Q, <<"1">>) ELSE env1,
              exit_code |-> r.val,
              diag |-> IF bad THEN {Msg("exit: integer argument required", 0, 0)}
                       ELSE {}]
        ELSE [env |-> env1,
              exit_code |-> IF st = NULL THEN 0 ELSE strtol(st).val,
              diag |-> d1]

\* The status a process that calls exit(code) ends with: code & 0377.
exit_status(code) == code % 256

\* ------------------------------------------------- the child before exec
\* words[i] as the child reads it: words[MAX_WORDS] lies outside the array
\* and holds beyond.
word_at(ws, i, beyond) == IF i < MAX_WORDS THEN ws[i] ELSE beyond

\* The redirection loop of the child (lines 551-586) from index i, every
\* open and dup2 succeeding: the loop ends at the first null pointer; an
\* operator takes words[i + 1] as its path and the loop goes on at i + 1.
\* end is how the loop ends: "exec" (line 589 is reached), "nofile" (an
\* operator followed by a null pointer: err), "efault" (the path is not a
\* readable address: open fails) or "fault" (strcmp on such an address).
\* ops is the set of indices taken as operators, top the highest index of
\* words[] read.
RECURSIVE child_redir(_, _, _, _)
child_redir(ws, i, beyond, ops) ==
    IF word_at(ws, i, beyond) = NULL
    THEN [end |-> "exec", ops |-> ops, top |-> i]
    ELSE IF word_at(ws, i, beyond) = BADPTR
    THEN [end |-> "fault", ops |-> ops, top |-> i]
    ELSE IF word_at(ws, i, beyond) \in RedirOps
    THEN IF word_at(ws, i + 1, beyond) = NULL
         THEN [end |-> "nofile", ops |-> ops, top |-> i + 1]
         ELSE IF word_at(ws, i + 1, beyond) = BADPTR
         THEN [end |-> "efault", ops |-> ops \cup {i}, top |-> i + 1]
         ELSE child_redir(ws, i + 1, beyond, ops \cup {i})
    ELSE child_redir(ws, i + 1, beyond, ops)

\* child_err as it would be if the failing child ended with status 0
\* (a faulty variant; C13 tells it from child_err).
child_err_with_success(ch) ==
    [ch EXCEPT !.st = "exited", !.val = 0, !.pend = TRUE, !.by = "err"]

\* How a child ends that fails before the program runs: err(1, ...) after
\* a failed open or dup2 or a missing path, exit(EXIT_FAILURE) after a
\* failed execv / execvp.
child_err(ch) ==
    [ch EXCEPT !.st = "exited", !.val = EXIT_FAILURE, !.pend = TRUE, !.by = "err"]

\* ---------------------------------------------------------- job control
\* A child is [st, val, pend, sigint, sigtstp, prep, redir, by]: st is
\* "running", "stopped", "exited" or "signaled"; val the exit code or the
\* signal; pend whether its last change of state is still to be returned by
\* waitpid; sigint and sigtstp the dispositions it installed after fork;
\* prep how its redirection loop ends and redir whether that loop opens a
\* file; by what ended it ("program": the program it executed, "err": its
\* own code before the program ran, "signal").

\* The parent branch for a background command (lines 607-614), given what
\* waitpid(pid, &status, WNOHANG | WUNTRACED) finds: the status is
\* discarded; a terminated child is reaped, a stop is consumed.
parent_bg(ch, p, env) ==
    [env |-> setenv(env, BANG, sprintf_d(p)),
     reap |-> ch.pend /\ ch.st \in {"exited", "signaled"},
     child |-> [ch EXCEPT !.pend = FALSE],
     diag |-> {}]

\* parent_fg as it would be without the kill(pid, SIGCONT) of line 631
\* (a faulty variant; C6 tells it from parent_fg).
parent_fg_without_cont(ch, p, env) ==
    IF ch.st = "signaled"
    THEN [env |-> setenv(env, Q, sprintf_d(128 + ch.val)),
          reap |-> TRUE, child |-> ch, diag |-> {}]
    ELSE IF ch.st = "stopped"
    THEN [env |-> setenv(env, BANG, sprintf_d(p)),
          reap |-> FALSE,
          child |-> [ch EXCEPT !.pend = FALSE],
          diag |-> {Msg("stopped. Continuing.", p, SIGCONT)}]
    ELSE [env |-> setenv(env, Q, sprintf_d(ch.val)),
          reap |-> TRUE, child |-> ch, diag |-> {}]

\* The parent branch for a foreground command (lines 615-646) once
\* waitpid(pid, &status, WUNTRACED) has returned ch's change of state.
parent_fg(ch, p, env) ==
    IF ch.st = "signaled"
    THEN [env |-> setenv(env, Q, sprintf_d(128 + ch.val)),
          reap |-> TRUE, child |-> ch, diag |-> {}]
    ELSE IF ch.st = "stopped"
    THEN [env |-> setenv(env, BANG, sprintf_d(p)),
          reap |-> FALSE,
          child |-> [ch EXCEPT !.st = "running", !.pend = FALSE],
          diag |-> {Msg("stopped. Continuing.", p, SIGCONT)}]
    ELSE [env |-> setenv(env, Q, sprintf_d(ch.val)),
          reap |-> TRUE, child |-> ch, diag |-> {}]

\* bg_report as it would be if the WIFSIGNALED branch were missing
\* (a faulty variant; C7 tells it from bg_report).
bg_report_without_signaled(ch, p, pgid, saved) ==
    IF pgid # saved THEN {}
    ELSE IF ch.st = "exited" THEN {Msg("done. Exit status", p, ch.val)}
    ELSE IF ch.st = "signaled" THEN {}
    ELSE {Msg("stopped. Continuing.", p, SIGCONT)}

\* What one turn of bg_handler's loop (lines 664-692) does with the child
\* waitpid(-1, ...) returned: the report printed, and the child afterwards
\* (a stopped child is sent SIGCONT).  Nothing happens unless the process
\* group is still the one saved at start-up.
bg_report(ch, p, pgid, saved) ==
    IF pgid # saved THEN {}
    ELSE IF ch.st = "exited" THEN {Msg("done. Exit status", p, ch.val)}
    ELSE IF ch.st = "signaled" THEN {Msg("done. Signaled", p, ch.val)}
    ELSE {Msg("stopped. Continuing.", p, SIGCONT)}

bg_child(ch, pgid, saved) ==
    IF pgid = saved /\ ch.st = "stopped"
    THEN [ch EXCEPT !.st = "running", !.pend = FALSE]
    ELSE [ch EXCEPT !.pend = FALSE]

\* bg_handler(): waitpid(-1, &status, WNOHANG | WUNTRACED) until it
\* returns no child, on the children cs: the children left and the reports.
bg_handler(cs, pgid, saved) ==
    LET got == {p \in DOMAIN cs : cs[p].pend}
        gone == {p \in got : cs[p].st \in {"exited", "signaled"}}
    IN  [children |-> [p \in DOMAIN cs \ gone |->
                          IF p \in got THEN bg_child(cs[p], pgid, saved) ELSE cs[p]],
         diag |-> UNION {bg_report(cs[p], p, pgid, saved) : p \in got}]

\* ----------------------------------------------------------------- inputs
SIG_DFL == "SIG_DFL"
SIG_IGN == "SIG_IGN"
SIGINT_handler == "SIGINT_handler"

\* How the interpreter is started: argc, the dispositions of SIGINT and
\* SIGTSTP it inherits, and HOME.
Starts ==
    { [argc |-> 1, sigint |-> SIG_DFL, sigtstp |-> SIG_DFL, home |-> <<"/">>],
      [argc |-> 1, sigint |-> SIG_IGN, sigtstp |-> SIG_DFL, home |-> NULL],
      [argc |-> 2, sigint |-> SIG_DFL, sigtstp |-> SIG_IGN, home |-> <<"/", "x">>],
      [argc |-> 3, sigint |-> SIG_DFL, sigtstp |-> SIG_DFL, home |-> NULL] }

L_blank == <<"\n">>
L_comment == <<" ", "#", "c", "\n">>
L_fg == <<"p", "\n">>
L_bg == <<"p", " ", "&", "\n">>
L_vars == <<"p", " ", "$", "?", " ", "$", "!", "\n">>
L_cd == <<"c", "d", "\n">>
L_cd_ok == <<"c", "d", " ", "/", "\n">>
L_cd_bad == <<"c", "d", " ", "x", "\n">>
L_cd_many == <<"c", "d", " ", "/", " ", "/", "\n">>
L_exit == <<"e", "x", "i", "t", "\n">>
L_exit_n == <<"e", "x", "i", "t", " ", "0", "1", "0", "\n">>
L_exit_bad == <<"e", "x", "i", "t", " ", "4", "x", "\n">>
L_exit_many == <<"e", "x", "i", "t", " ", "1", " ", "2", "\n">>
L_redir == <<">", " ", "f", "\n">>
L_amp == <<"&", "\n">>
L_rr == <<"p", " ", ">", " ", ">", " ", "f", "\n">>
L_oplast == <<"p", " ", ">", ">", "\n">>
L_op == <<"<", "\n">>
L_cd_op == <<"c", "d", " ", ">", "\n">>
L_open == <<"p", " ", "$", "{", "H", "O", "M", "E", " ", "$", "{", "U", "$", "$", "\n">>
L_refs == <<"p", " ", "$", "{", "V", "}", "$", "{", "U", "}", "a",
            "$", "$", "$", "{", "?", "}", "$", "\n">>
L_esc == <<"p", " ", "a", "\\", " ", "b", " ", "\\", "#", "c", "\n">>
L_bs_end == <<"p", " ", "a", "\\">>
L_many == <<"p", " ", "a", " ", "b", " ", "c", " ", "d", " ", "e", "\n">>

\* The lines a user types on stdin at any time.
JobLines ==
    { L_blank, L_comment, L_fg, L_bg, L_vars, L_cd, L_cd_ok, L_cd_bad,
      L_cd_many, L_exit, L_exit_n, L_exit_bad, L_exit_many }

\* The lines a user types on stdin before the first command is forked: those
\* and the ones that try the tokenizer, the expansion, the parser and the
\* child's redirection loop, none of which looks at the jobs there are.
Lines ==
    JobLines \cup
    { L_redir, L_amp, L_rr, L_oplast, L_op, L_cd_op, L_open, L_refs, L_esc,
      L_bs_end, L_many }

\* The lines of the script file argv[1] names.
Script == <<L_fg, L_comment, L_vars>>

Stale == {<<>>, <<"q", " ", "r">>}   \* the bytes after the line's terminator
Beyond == {NULL, BADPTR}     \* what words[MAX_WORDS] can hold
SIGSEGV == 11
Junk == {BADPTR, <<"&">>, <<"x">>}   \* what words_argv[-1] can hold
ExitCodes == {0, 255}        \* the codes a program exits with
TermSigs == {9}              \* the signals that terminate a program

NoWords == [i \in 0..(MAX_WORDS - 1) |-> NULL]
NoLast == [op |-> "none", pid |-> 0, val |-> 0]
FirstChild == ShellPid + 1

\* ------------------------------------------------------------------ state
VARIABLES
    pc,              \* where main is
    start,           \* how it was started (an element of Starts)
    environ,         \* the environment: $, ?, ! and HOME
    cwd,             \* the working directory
    sigint,          \* the interpreter's disposition of SIGINT
    sigtstp,         \* the interpreter's disposition of SIGTSTP
    SIGINT_default,  \* SIGINT_default.sa_handler
    SIGTSTP_default, \* SIGTSTP_default.sa_handler
    ppgid,           \* the saved process group
    fpos,            \* lines read from the script file since it was opened
    mem,             \* getline's buffer: the line, NUL, the bytes after it
    words,           \* words[]
    nwords,
    words_argv,
    words_argc,
    bg_flag,
    children,        \* the children not yet reaped, by pid
    nforked,         \* children forked so far
    pid,             \* execute_nonbuiltin_cmds' pid
    status,          \* the status the interpreter ended with
    diag,            \* what the last step wrote to stderr
    last             \* what the command run last came to (history)

vars ==
    << pc, start, environ, cwd, sigint, sigtstp, SIGINT_default,
       SIGTSTP_default, ppgid, fpos, mem, words, nwords, words_argv,
       words_argc, bg_flag, children, nforked, pid, status, diag, last >>

sigvars == <<sigint, sigtstp, SIGINT_default, SIGTSTP_default>>
linevars == <<mem, words, nwords, words_argv, words_argc>>
jobvars == <<children, nforked, pid>>

Init ==
    /\ pc = "smallsh"
    /\ start \in Starts
    /\ environ = [n \in {DOLLAR, Q, BANG, HOME, V} |->
                     IF n = HOME THEN start.home
                     ELSE IF n = V THEN <<"$", "?">> ELSE NULL]
    /\ cwd = <<"/">>
    /\ sigint = start.sigint
    /\ sigtstp = start.sigtstp
    /\ SIGINT_default = SIG_DFL
    /\ SIGTSTP_default = SIG_DFL
    /\ ppgid = 0
    /\ fpos = 0
    /\ mem = <<>>
    /\ words = NoWords
    /\ nwords = 0
    /\ words_argv = <<>>
    /\ words_argc = 0
    /\ bg_flag = 0
    /\ children = [p \in {} |-> 0]
    /\ nforked = 0
    /\ pid = 0
    /\ status = -1
    /\ diag = {}
    /\ last = NoLast

\* ---------------------------------------------------- main: lines 80-105
FromFile == start.argc = 2

\* errx(1, "too many arguments")
UsageError ==
    /\ pc = "smallsh"
    /\ start.argc > 2
    /\ pc' = "done"
    /\ status' = 1
    /\ diag' = {Msg("too many arguments", 0, 0)}
    /\ UNCHANGED << start, environ, cwd, sigvars, ppgid, fpos, linevars,
                    bg_flag, jobvars, last >>

\* fopen(input_fn, "re") fails: err(1, ...)
OpenFail ==
    /\ pc = "smallsh"
    /\ FromFile
    /\ pc' = "done"
    /\ status' = 1
    /\ diag' = {Msg("fopen", 0, 0)}
    /\ UNCHANGED << start, environ, cwd, sigvars, ppgid, fpos, linevars,
                    bg_flag, jobvars, last >>

\* The label smallsh: down to the for loop: the input stream is (re)opened,
\* line is NULL again, and $$, $? and $! are set to their first values.
Smallsh ==
    /\ pc = "smallsh"
    /\ start.argc <= 2
    /\ fpos' = IF FromFile THEN 0 ELSE fpos
    /\ mem' = <<>>
    /\ ppgid' = ShellPgrp
    /\ environ' = setenv(setenv(setenv(environ, DOLLAR, sprintf_d(ShellPid)),
                                Q, <<"0">>), BANG, <<>>)
    /\ diag' = {}
    /\ pc' = "setup"
    /\ UNCHANGED << start, cwd, sigvars, words, nwords, words_argv,
                    words_argc, bg_flag, jobvars, status, last >>

\* -------------------------------------------------- main: lines 107-111
\* SIGTSTP_setup(); SIGINT_setup(): each saves the disposition in force
\* at the call and installs the interpreter's own.
Setup ==
    /\ pc = "setup"
    /\ SIGTSTP_default' = sigtstp
    /\ sigtstp' = SIG_IGN
    /\ SIGINT_default' = sigint
    /\ sigint' = SIGINT_handler
    /\ diag' = {}
    /\ pc' = "prompt"
    /\ UNCHANGED << start, environ, cwd, ppgid, fpos, linevars, bg_flag,
                    jobvars, status, last >>

\* -------------------------------------------------- main: lines 114-122
\* prompt: bg_handler(), then the prompt.
Prompt ==
    /\ pc = "prompt"
    /\ LET r == bg_handler(children, ShellPgrp, ppgid)
       IN  /\ children' = r.children
           /\ diag' = r.diag
    /\ pc' = "getline"
    /\ UNCHANGED << start, environ, cwd, sigvars, ppgid, fpos, linevars,
                    bg_flag, nforked, pid, status, last >>

\* -------------------------------------------------- main: lines 127-144
\* getline returns a line; SIGINT is then ignored.
GetLine ==
    /\ pc = "getline"
    /\ \E l \in (IF nforked = 0 THEN Lines ELSE JobLines) :
          /\ FromFile => fpos < Len(Script) /\ l = Script[fpos + 1]
          /\ mem' = l \o <<NUL>>
    /\ fpos' = IF FromFile THEN fpos + 1 ELSE fpos
    /\ sigint' = SIG_IGN
    /\ diag' = {}
    /\ pc' = "wordsplit"
    /\ UNCHANGED << start, environ, cwd, sigtstp, SIGINT_default,
                    SIGTSTP_default, ppgid, words, nwords, words_argv,
                    words_argc, bg_flag, jobvars, status, last >>

\* getline fails at the end of the input: return 0.
Eof ==
    /\ pc = "getline"
    /\ FromFile => fpos = Len(Script)
    /\ pc' = "done"
    /\ status' = 0
    /\ diag' = {}
    /\ UNCHANGED << start, environ, cwd, sigvars, ppgid, fpos, linevars,
                    bg_flag, jobvars, last >>

\* A SIGINT arrives while getline is blocked and the handler is installed:
\* the handler prints a newline, getline fails with EINTR, goto smallsh.
Eintr ==
    /\ pc = "getline"
    /\ sigint = SIGINT_handler
    /\ pc' = "smallsh"
    /\ diag' = {Msg("\n", 0, 0)}
    /\ UNCHANGED << start, environ, cwd, sigvars, ppgid, fpos, linevars,
                    bg_flag, jobvars, status, last >>

\* getline fails for another reason: err(1, "getline ...").
ReadError ==
    /\ pc = "getline"
    /\ pc' = "done"
    /\ status' = 1
    /\ diag' = {Msg("getline", 0, 0)}
    /\ UNCHANGED << start, environ, cwd, sigvars, ppgid, fpos, linevars,
                    bg_flag, jobvars, last >>

\* -------------------------------------------------- main: lines 147-149
\* mem holds the bytes getline stored; what lies after the terminator is
\* indeterminate and becomes part of mem only if wordsplit reads it.
WordSplit ==
    /\ pc = "wordsplit"
    /\ \E junk \in Stale :
          LET r == wordsplit(mem \o junk, words)
          IN  /\ words' = r.words
              /\ nwords' = r.wind
              /\ mem' = IF r.c > Len(mem) THEN mem \o junk ELSE mem
              /\ pc' = IF r.wind = 0 THEN "prompt" ELSE "expand"
    /\ diag' = {}
    /\ UNCHANGED << start, environ, cwd, sigvars, ppgid, fpos,
                    words_argv, words_argc, bg_flag, jobvars, status, last >>

\* -------------------------------------------------- main: lines 152-157
Expand ==
    /\ pc = "expand"
    /\ words' = [i \in DOMAIN words |->
                    IF i < nwords THEN expand(words[i], environ) ELSE words[i]]
    /\ diag' = {}
    /\ pc' = "parse"
    /\ UNCHANGED << start, environ, cwd, sigvars, ppgid, fpos, mem,
                    nwords, words_argv, words_argc, bg_flag, jobvars, status,
                    last >>

\* -------------------------------------------------- main: lines 160-163
Parse ==
    /\ pc = "parse"
    /\ \E junk \in Junk :
          LET r == parse_command(nwords, words, junk)
          IN  IF r.fault
              THEN /\ pc' = "crashed"
                   /\ UNCHANGED << words_argv, words_argc, bg_flag >>
              ELSE /\ pc' = "execute"
                   /\ words_argv' = r.argv
                   /\ words_argc' = r.argc
                   /\ bg_flag' = r.bg_flag
    /\ diag' = {}
    /\ UNCHANGED << start, environ, cwd, sigvars, ppgid, fpos, mem,
                    words, nwords, jobvars, status, last >>

\* ---------------------------------------------- execute_cmds: 518-527
IsCd == words_argv[0] = <<"c", "d">>
IsExit == ~IsCd /\ words[0] = <<"e", "x", "i", "t">>

\* strcmp(words_argv[0], "cd") on a pointer that is null or was never set.
ExecFault ==
    /\ pc = "execute"
    /\ words_argv[0] \in {NULL, UNINIT}
    /\ pc' = "crashed"
    /\ diag' = {}
    /\ UNCHANGED << start, environ, cwd, sigvars, ppgid, fpos, linevars,
                    bg_flag, jobvars, status, last >>

Cd ==
    /\ pc = "execute"
    /\ words_argv[0] # NULL
    /\ IsCd
    /\ LET r == builtin_cd(words_argv, words_argc, environ, cwd)
       IN  /\ environ' = r.env
           /\ cwd' = r.cwd
           /\ diag' = r.diag
    /\ last' = [op |-> "cd", pid |-> 0, val |-> 0]
    /\ pc' = "cleanup"
    /\ UNCHANGED << start, sigvars, ppgid, fpos, linevars, bg_flag,
                    jobvars, status >>

Exit ==
    /\ pc = "execute"
    /\ words_argv[0] # NULL
    /\ IsExit
    /\ LET r == builtin_exit(words_argv, words_argc, environ)
       IN  /\ environ' = r.env
           /\ status' = exit_status(r.exit_code)
           /\ diag' = r.diag
    /\ last' = [op |-> "exit", pid |-> 0, val |-> 0]
    /\ pc' = "done"
    /\ UNCHANGED << start, cwd, sigvars, ppgid, fpos, linevars, bg_flag,
                    jobvars >>

\* ------------------------------------- execute_nonbuiltin_cmds: 530-649
\* The child right after fork, once it has installed the saved
\* dispositions (lines 547-548); its redirection loop runs on its copy of
\* words[].
NewChild(beyond) ==
    LET r == child_redir(words, 0, beyond, {})
    IN  [st |-> "running", val |-> 0, pend |-> FALSE,
         sigint |-> SIGINT_default, sigtstp |-> SIGTSTP_default,
         prep |-> r.end, redir |-> r.ops # {}, by |-> ""]

Fork ==
    /\ pc = "execute"
    /\ words_argv[0] # NULL
    /\ ~IsCd /\ ~IsExit
    /\ nforked < MaxChildren
    /\ pid' = FirstChild + nforked
    /\ nforked' = nforked + 1
    /\ \E beyond \in Beyond :
          children' = [p \in DOMAIN children \cup {FirstChild + nforked} |->
                          IF p \in DOMAIN children THEN children[p]
                          ELSE NewChild(beyond)]
    /\ diag' = {}
    /\ pc' = "parent"
    /\ UNCHANGED << start, environ, cwd, sigvars, ppgid, fpos, linevars,
                    bg_flag, status, last >>

\* fork returns -1: exit(EXIT_FAILURE).
ForkFail ==
    /\ pc = "execute"
    /\ words_argv[0] # NULL
    /\ ~IsCd /\ ~IsExit
    /\ pc' = "done"
    /\ status' = EXIT_FAILURE
    /\ diag' = {Msg("Fork", 0, 0)}
    /\ UNCHANGED << start, environ, cwd, sigvars, ppgid, fpos, linevars,
                    bg_flag, jobvars, last >>

\* The parent of a background command: one waitpid with WNOHANG.
ParentBg ==
    /\ pc = "parent"
    /\ bg_flag # 0
    /\ LET r == parent_bg(children[pid], pid, environ)
       IN  /\ environ' = r.env
           /\ diag' = r.diag
           /\ children' = [p \in DOMAIN children \ (IF r.reap THEN {pid} ELSE {}) |->
                              IF p = pid THEN r.child ELSE children[p]]
    /\ last' = [op |-> "bg", pid |-> pid, val |-> 0]
    /\ pc' = "cleanup"
    /\ UNCHANGED << start, cwd, sigvars, ppgid, fpos, linevars, bg_flag,
                    nforked, pid, status >>

\* The parent of a foreground command: waitpid blocks until the child has
\* exited, been killed or stopped.
ParentFg ==
    /\ pc = "parent"
    /\ bg_flag = 0
    /\ children[pid].pend
    /\ LET r == parent_fg(children[pid], pid, environ)
       IN  /\ environ' = r.env
           /\ diag' = r.diag
           /\ children' = [p \in DOMAIN children \ (IF r.reap THEN {pid} ELSE {}) |->
                              IF p = pid THEN r.child ELSE children[p]]
    /\ last' = [op |-> "fg_" \o children[pid].st, pid |-> pid,
                val |-> children[pid].val]
    /\ pc' = "cleanup"
    /\ UNCHANGED << start, cwd, sigvars, ppgid, fpos, linevars, bg_flag,
                    nforked, pid, status >>

\* -------------------------------------------------- main: lines 169-171
\* (mem, the line buffer, keeps its bytes in the program; nothing reads
\* them again, so the model forgets them here.)
Cleanup ==
    /\ pc = "cleanup"
    /\ words' = [i \in DOMAIN words |-> IF i < nwords THEN NULL ELSE words[i]]
    /\ nwords' = 0
    /\ words_argv' = <<>>
    /\ words_argc' = 0
    /\ mem' = <<>>
    /\ pid' = 0
    /\ diag' = {}
    /\ pc' = "setup"
    /\ UNCHANGED << start, environ, cwd, sigvars, ppgid, fpos, bg_flag,
                    children, nforked, status, last >>

\* ------------------------------------------------------------ the children
\* The program the child executed (line 592 or 599) exits.
ChildExit(p, code) ==
    /\ children[p].st = "running"
    /\ children[p].prep = "exec"
    /\ children' = [children EXCEPT ![p].st = "exited", ![p].val = code,
                                    ![p].pend = TRUE, ![p].by = "program"]
    /\ UNCHANGED << pc, start, environ, cwd, sigvars, ppgid, fpos, linevars, bg_flag, nforked, pid, status, diag, last >>

\* The child fails before the program runs: an operator has no path
\* (lines 555, 566, 577), an open or a dup2 fails, execv / execvp returns.
ChildFail(p, why) ==
    /\ children[p].st = "running"
    /\ \/ why = "nofile" /\ children[p].prep = "nofile"
       \/ why = "open" /\ (children[p].redir \/ children[p].prep = "efault")
       \/ why = "dup2" /\ children[p].redir /\ children[p].prep # "efault"
       \/ why = "exec" /\ children[p].prep = "exec"
    /\ children' = [children EXCEPT ![p] = child_err(children[p])]
    /\ diag' = {Msg(why, p, 0)}
    /\ UNCHANGED << pc, start, environ, cwd, sigvars, ppgid, fpos, linevars, bg_flag, nforked, pid, status, last >>

\* A signal terminates the child; SIGSEGV when its redirection loop
\* dereferences what lies after words[].
ChildKilled(p, sig) ==
    /\ children[p].st = "running"
    /\ sig = SIGSEGV <=> children[p].prep = "fault"
    /\ children' = [children EXCEPT ![p].st = "signaled", ![p].val = sig,
                                    ![p].pend = TRUE, ![p].by = "signal"]
    /\ UNCHANGED << pc, start, environ, cwd, sigvars, ppgid, fpos, linevars, bg_flag, nforked, pid, status, diag, last >>

ChildStop(p) ==
    /\ children[p].st = "running"
    /\ children' = [children EXCEPT ![p].st = "stopped", ![p].pend = TRUE]
    /\ UNCHANGED << pc, start, environ, cwd, sigvars, ppgid, fpos, linevars, bg_flag, nforked, pid, status, diag, last >>

\* The interpreter learns of a child's change of state only from waitpid,
\* so the change is taken at the positions whose next step is a waitpid
\* that can return it (at "parent", the waitpid for pid): any other
\* interleaving differs only in the order of independent steps.
Child ==
    /\ pc \in {"prompt", "parent"}
    /\ \E p \in DOMAIN children :
          /\ pc = "parent" => p = pid
          /\ \/ \E code \in ExitCodes : ChildExit(p, code)
             \/ \E why \in {"nofile", "open", "dup2", "exec"} : ChildFail(p, why)
             \/ \E sig \in TermSigs \cup {SIGSEGV} : ChildKilled(p, sig)
             \/ ChildStop(p)

Next ==
    \/ UsageError \/ OpenFail \/ Smallsh \/ Setup \/ Prompt
    \/ GetLine \/ Eof \/ Eintr \/ ReadError
    \/ WordSplit \/ Expand \/ Parse
    \/ ExecFault \/ Cd \/ Exit \/ Fork \/ ForkFail \/ ParentBg \/ ParentFg
    \/ Cleanup
    \/ Child

Spec == Init /\ [][Next]_vars

\* ================================================================ claims
\* The number a string of decimal digits denotes.
RECURSIVE DecValue(_)
DecValue(s) ==
    IF s = <<>> THEN 0 ELSE 10 * DecValue(SubSeq(s, 1, Len(s) - 1)) + DigitVal(s[Len(s)])

\* s is the decimal string of n: digits only, no leading zero.
IsDecimalOf(s, n) ==
    /\ s # NULL
    /\ Len(s) >= 1
    /\ \A i \in 1..Len(s) : DigitVal(s[i]) < 10
    /\ Len(s) > 1 => s[1] # "0"
    /\ DecValue(s) = n

\* The tokens of the line being processed, before expansion.
RawWords == wordsplit(mem, NoWords).words

Processing == {"wordsplit", "expand", "parse", "execute", "parent", "cleanup"}

\* C1: whenever the interpreter is blocked reading a line its SIGINT
\* disposition is the newline-printing handler, and from the moment a line
\* has been read until the next loop iteration begins it is SIG_IGN, after
\* any sequence of lines (a blank line included).
C1_SigintByPosition ==
    /\ pc = "getline" => sigint = SIGINT_handler
    /\ pc \in Processing => sigint = SIG_IGN

\* C2: every child, forked at any loop iteration, installs the SIGINT and
\* SIGTSTP dispositions the interpreter had before it installed its own.
C2_ChildGetsInheritedDispositions ==
    \A p \in DOMAIN children :
        /\ children[p].sigint = start.sigint
        /\ children[p].sigtstp = start.sigtstp

\* C3: $? changes only in a step that collects a foreground child as exited
\* or signaled; every other step leaves it as it was.
C3_StatusChangesOnlyOnFgCompletion ==
    [][ (environ[Q] # NULL /\ environ'[Q] # environ[Q])
        => /\ pc = "parent" /\ pc' = "cleanup"
           /\ bg_flag = 0
           /\ children[pid].st \in {"exited", "signaled"} ]_vars

\* C4: after a foreground command completed, a $? in the next line that is
\* expanded yields the decimal string of N if the child exited with code N
\* and of 128 + S if signal S terminated it, whatever happened in between.
C4_StatusExpansionAfterFg ==
    (pc = "parse" /\ last.op \in {"fg_exited", "fg_signaled"})
    => \A i \in 0..(nwords - 1) :
          RawWords[i] = <<"$", "?">>
          => IsDecimalOf(words[i],
                 IF last.op = "fg_exited" THEN last.val ELSE 128 + last.val)

\* C5: launching a background command never waits for the child: the
\* parent step is enabled whatever the child's state, it sets $! to the
\* child's pid and goes on to the prompt, and the next $! expansion yields
\* that pid.
C5_BackgroundLaunch ==
    /\ (pc = "parent" /\ bg_flag # 0) => ENABLED ParentBg
    /\ (pc = "cleanup" /\ last.op = "bg") => IsDecimalOf(environ[BANG], last.pid)
    /\ (pc = "parse" /\ last.op = "bg")
       => \A i \in 0..(nwords - 1) :
             RawWords[i] = <<"$", "!">> => IsDecimalOf(words[i], last.pid)

\* C6: when the foreground child stops, the blocking wait returns, the child
\* is sent SIGCONT (it runs again), $! becomes its pid, $? keeps its value,
\* and the child stays outstanding for later sweeps to collect.
C6_ForegroundStop ==
    [][ (pc = "parent" /\ bg_flag = 0 /\ children[pid].st = "stopped")
        => /\ ENABLED ParentFg
           /\ pc' = "cleanup"
              => /\ pid \in DOMAIN children'
                 /\ children'[pid].st = "running"
                 /\ ~children'[pid].pend
                 /\ IsDecimalOf(environ'[BANG], pid)
                 /\ environ'[Q] = environ[Q]
                 /\ Msg("stopped. Continuing.", pid, SIGCONT) \in diag' ]_vars

\* C6 witness: a sweep reports the exit of the child that, as the last
\* foreground command, had stopped and been continued.
C6_Witness ==
    /\ pc = "getline"
    /\ last.op = "fg_stopped"
    /\ \E c \in ExitCodes : Msg("done. Exit status", last.pid, c) \in diag

\* C7: a sweep never blocks and always returns; it collects every change of
\* state pending when it runs: an exited or signaled child is reported and
\* is no longer outstanding, a stopped child is sent SIGCONT, reported and
\* stays outstanding; nothing it collected is left unreported, and no other
\* child is touched.
C7_Sweep ==
    [][ pc = "prompt"
        => /\ ENABLED Prompt
           /\ pc' = "getline"
              => /\ \A p \in DOMAIN children :
                       IF ~children[p].pend
                       THEN p \in DOMAIN children' /\ children'[p] = children[p]
                       ELSE IF children[p].st = "exited"
                       THEN /\ p \notin DOMAIN children'
                            /\ Msg("done. Exit status", p, children[p].val) \in diag'
                       ELSE IF children[p].st = "signaled"
                       THEN /\ p \notin DOMAIN children'
                            /\ Msg("done. Signaled", p, children[p].val) \in diag'
                       ELSE /\ p \in DOMAIN children'
                            /\ children'[p].st = "running"
                            /\ ~children'[p].pend
                            /\ Msg("stopped. Continuing.", p, SIGCONT) \in diag'
                 /\ Cardinality(diag') = Cardinality({p \in DOMAIN children : children[p].pend})
                 /\ DOMAIN children' \subseteq DOMAIN children ]_vars

\* C7 witness: one sweep has continued a stopped child and reported a
\* terminated one.
C7_Witness ==
    /\ pc = "getline"
    /\ \E p \in DOMAIN children : Msg("stopped. Continuing.", p, SIGCONT) \in diag
    /\ \E m \in diag : m.msg \in {"done. Exit status", "done. Signaled"}

\* s is an integer: an optional sign, then decimal digits only.
IsInteger(s) ==
    LET d == IF s # <<>> /\ s[1] \in {"-", "+"} THEN Tail(s) ELSE s
    IN  d # <<>> /\ \A i \in 1..Len(d) : DigitVal(d[i]) < 10

\* The command about to run is a built-in used wrongly.
CdError ==
    /\ IsCd
    /\ \/ words_argc > 2
       \/ words_argc = 2 /\ words_argv[1] \notin Dirs
       \/ words_argc = 1 /\ environ[HOME] = NULL
ExitError ==
    /\ IsExit
    /\ \/ words_argc > 2
       \/ words_argc = 2 /\ ~IsInteger(words_argv[1])

\* C8: on a recoverable user error of cd or exit the error is reported, $?
\* becomes non-zero, and the interpreter does not terminate: it goes on to
\* the next prompt.
C8_BuiltinErrorsRecover ==
    [][ (pc = "execute" /\ words_argv[0] # NULL /\ (CdError \/ ExitError))
        => /\ diag' # {}
           /\ environ'[Q] \notin {NULL, <<"0">>}
           /\ pc' = "cleanup" ]_vars

\* C9: exit with no arguments terminates the interpreter with the status
\* that is the current value of $?, and a foreground command that exits
\* with code N makes N that value.
C9_ExitUsesStatus ==
    [][ /\ (pc = "execute" /\ words_argv[0] # NULL /\ IsExit /\ words_argc = 1)
           => pc' = "done" /\ IsDecimalOf(environ[Q], status')
        /\ (pc = "parent" /\ pc' = "cleanup" /\ bg_flag = 0
              /\ children[pid].st = "exited")
           => IsDecimalOf(environ'[Q], children[pid].val) ]_vars

\* C9 witness: exit with no arguments has ended the interpreter with 255,
\* the code the foreground command before it exited with.
C9_Witness ==
    /\ pc = "done"
    /\ last.op = "exit"
    /\ words_argc = 1
    /\ status = 255
    /\ environ[Q] = <<"2", "5", "5">>

\* The tokens left of a token sequence once every redirection operator and
\* the token after it are taken out.
RECURSIVE Stripped(_)
Stripped(toks) ==
    IF toks = <<>> THEN <<>>
    ELSE IF Head(toks) \in RedirOps
    THEN IF Len(toks) >= 2 THEN Stripped(Tail(Tail(toks))) ELSE <<>>
    ELSE <<Head(toks)>> \o Stripped(Tail(toks))

\* C10: for every expanded token sequence parse_command returns with the
\* background flag set exactly when the last argument left after stripping
\* the redirections is "&", which is then removed; otherwise the flag is
\* cleared, whatever it was; the vector is null-terminated at the count.
C10_ParseCommand ==
    [][ pc = "parse"
        => LET args == Stripped([i \in 1..nwords |-> words[i - 1]])
               amp == args # <<>> /\ args[Len(args)] = <<"&">>
               kept == IF amp THEN SubSeq(args, 1, Len(args) - 1) ELSE args
           IN  /\ pc' = "execute"
               /\ bg_flag' = (IF amp THEN 1 ELSE 0)
               /\ words_argc' = Len(kept)
               /\ \A i \in 1..Len(kept) : words_argv'[i - 1] = kept[i]
               /\ words_argv'[Len(kept)] = NULL ]_vars

\* What parse_command's loop and the child's redirection loop make of the
\* tokens of the line being run.
ParserView == pc_loop(words, nwords, 0, [i \in 0..nwords |-> UNINIT], 0, {}, {})
ChildView == child_redir(words, 0, NULL, {})

\* The operators the parser skips together with a token after them.
ParserPairs == {i \in ParserView.ops : i + 1 < nwords}

\* C11: once a command is forked, the child and the parser take the same
\* tokens as redirection operators, and no token the child opens as the
\* path of a redirection was copied into the argument vector.
C11_TargetsNeverArguments ==
    pc = "parent" =>
        /\ ChildView.ops = ParserPairs
        /\ {i + 1 : i \in ChildView.ops} \cap ParserView.copied = {}

\* The last token of the line being run is a redirection operator.
OperatorLast == nwords > 0 /\ words[nwords - 1] \in RedirOps

\* C12: a line whose last token is a redirection operator is run as a
\* command that fails: parsing and dispatch do not end the interpreter and
\* run no built-in, the child never executes the program, and the command
\* ends with $? set to a non-zero value.
C12_MissingTargetFails ==
    [][ OperatorLast =>
          /\ pc = "parse" => pc' = "execute"
          /\ pc = "execute" => pc' \in {"parent", "done"} /\ last' = last
          /\ pc = "execute" /\ pc' = "done" => status' = EXIT_FAILURE /\ environ' = environ
          /\ pc = "parent" /\ pc' = "parent" =>
                \A p \in DOMAIN children' : children'[p].by # "program"
          /\ pc = "parent" /\ pc' = "cleanup" =>
                /\ environ'[Q] \notin {NULL, <<"0">>}
                /\ DecValue(environ'[Q]) # 0 ]_vars

\* C13: a child that fails before the program runs (a redirection target
\* that cannot be opened, a failed dup2, a missing path, a failed exec)
\* ends alone, with a non-zero status, and was never running the program;
\* the interpreter does not end: the foreground wait sets $? to that status
\* and goes on to the clean-up, the launch of a background command goes on
\* too, and a sweep reaps the child and reports that status.
C13_ChildErrorsStayInChild ==
    [][ /\ \A p \in DOMAIN children \cap DOMAIN children' :
              children[p].by # "err" /\ children'[p].by = "err" =>
                  /\ children[p].st = "running" /\ children[p].by = ""
                  /\ children'[p].st = "exited" /\ children'[p].val # 0
                  /\ pc' = pc /\ status' = status /\ environ' = environ
        /\ \A p \in DOMAIN children :
              children[p].by = "program" => children[p].prep = "exec"
        /\ pc = "parent" /\ children[pid].by = "err" /\ pc' # "parent" =>
              /\ pc' = "cleanup" /\ status' = status
              /\ pid \notin DOMAIN children'
              /\ bg_flag = 0 => IsDecimalOf(environ'[Q], children[pid].val)
              /\ bg_flag = 0 => environ'[Q] # <<"0">>
        /\ pc = "prompt" /\ pc' # "prompt" =>
              \A p \in DOMAIN children :
                  children[p].by = "err" =>
                      /\ pc' = "getline" /\ status' = status
                      /\ p \notin DOMAIN children'
                      /\ Msg("done. Exit status", p, children[p].val) \in diag' ]_vars

\* A foreground command with a redirection whose child failed before the
\* program ran has been collected: $? is 1 and the interpreter goes on.
C13_Witness ==
    /\ pc = "cleanup"
    /\ last.op = "fg_exited" /\ last.val = EXIT_FAILURE
    /\ ChildView.ops # {}
    /\ environ[Q] = <<"1">>
    /\ pid \notin DOMAIN children
    /\ status = -1

\* The line read: the bytes of getline's buffer before the terminator.
Line == CStr(mem)

\* l is nothing but whitespace, possibly followed by a comment: a '#'
\* where a word would start, and anything after it.
BlankOrComment(l) ==
    \E k \in 0..Len(l) :
        /\ \A j \in 1..k : l[j] \in Space
        /\ k = Len(l) \/ l[k + 1] = "#"

\* C14: a line of whitespace and / or a comment gives zero tokens, and main
\* goes straight back to the prompt: nothing is expanded, parsed, forked or
\* run, and $?, $! and everything else but the position stay as they were.
C14_BlankLinesReprompt ==
    [][ pc = "wordsplit" /\ BlankOrComment(Line) =>
          /\ nwords' = 0 /\ words' = NoWords
          /\ pc' = "prompt"
          /\ environ' = environ /\ cwd' = cwd /\ status' = status
          /\ children' = children /\ nforked' = nforked
          /\ words_argv' = words_argv /\ last' = last ]_vars

\* A comment line has been read after a foreground command that exited
\* with 255, and main is back at the prompt with $? still 255.
C14_Witness ==
    /\ pc = "prompt"
    /\ mem = L_comment \o <<NUL>>
    /\ nwords = 0
    /\ last.op = "fg_exited" /\ last.val = 255
    /\ environ[Q] = <<"2", "5", "5">>

\* The value of the variable name: empty when it is not set.
RefValue(name) ==
    IF name \in DOMAIN environ /\ environ[name] # NULL THEN environ[name] ELSE <<>>

\* The position of the first '}' of w at or after k, 0 when there is none.
FirstClose(w, k) ==
    IF \E j \in k..Len(w) : w[j] = "}"
    THEN CHOOSE j \in k..Len(w) : w[j] = "}" /\ \A h \in k..(j - 1) : w[h] # "}"
    ELSE 0

\* The expansion of w read off the rule: going left to right, a complete
\* reference is replaced by its value, which is not looked at again, and
\* any other byte is copied.
RECURSIVE RefExpand(_)
RefExpand(w) ==
    IF w = <<>> THEN <<>>
    ELSE IF Len(w) >= 2 /\ w[1] = "$" /\ w[2] \in {"$", "!", "?"}
    THEN RefValue(<<w[2]>>) \o RefExpand(SubSeq(w, 3, Len(w)))
    ELSE IF Len(w) >= 2 /\ w[1] = "$" /\ w[2] = "{" /\ FirstClose(w, 3) # 0
    THEN RefValue(SubSeq(w, 3, FirstClose(w, 3) - 1))
             \o RefExpand(SubSeq(w, FirstClose(w, 3) + 1, Len(w)))
    ELSE <<w[1]>> \o RefExpand(Tail(w))

\* w holds no complete reference.
NoReference(w) ==
    \A j \in 1..(Len(w) - 1) :
        w[j] = "$" => /\ w[j + 1] \notin {"$", "!", "?"}
                      /\ w[j + 1] = "{" => FirstClose(w, j + 2) = 0

\* Every word of at most MaxWordLen bytes over the bytes references are
\* made of.
ShortWords == UNION {[1..n -> {"$", "{", "}", "?", "V"}] : n \in 0..MaxWordLen}

\* C15: the expansion step replaces every token by its expansion as the
\* rule gives it, and a token with no complete reference stays as it is;
\* so would every short word, had it been a token of the first line.
C15_ExpandFollowsRule ==
    [][ pc = "expand" =>
          /\ \A i \in 0..(nwords - 1) :
                /\ words'[i] = RefExpand(words[i])
                /\ NoReference(words[i]) => words'[i] = words[i]
          /\ last.op = "none" =>
                \A w \in ShortWords :
                    /\ expand(w, environ) = RefExpand(w)
                    /\ NoReference(w) => expand(w, environ) = w ]_vars

\* The line with ${V}${U}a$$${?}$ has been expanded: the value "$?" of V
\* is not expanded again, the unset U gives nothing, and the last '$' stays.
C15_Witness ==
    /\ pc = "parse"
    /\ mem = L_refs \o <<NUL>>
    /\ words[1] = <<"$", "?", "a">> \o sprintf_d(ShellPid) \o environ[Q] \o <<"$">>
    /\ environ[V] = <<"$", "?">>

\* The tokens of the line rest read off the rule, cur being the token begun
\* (inword) and acc the tokens ended: whitespace ends a token, a '#' where
\* a token would begin ends the line, a backslash puts the byte after it
\* into the token, and a backslash that ends the line puts in nothing.
RECURSIVE RefSplit(_, _, _, _)
RefSplit(rest, cur, inword, acc) ==
    IF rest = <<>> THEN (IF inword THEN Append(acc, cur) ELSE acc)
    ELSE IF Head(rest) \in Space
    THEN RefSplit(Tail(rest), <<>>, FALSE, IF inword THEN Append(acc, cur) ELSE acc)
    ELSE IF Head(rest) = "#" /\ ~inword THEN acc
    ELSE IF Head(rest) = "\\"
    THEN IF Len(rest) >= 2
         THEN RefSplit(SubSeq(rest, 3, Len(rest)), Append(cur, rest[2]), TRUE, acc)
         ELSE RefSplit(<<>>, cur, TRUE, acc)
    ELSE RefSplit(Tail(rest), Append(cur, Head(rest)), TRUE, acc)

RefTokens == RefSplit(Line, <<>>, FALSE, <<>>)

\* C16: tokenizing a line never reads past the line's terminator, whatever
\* lies after it, and gives the tokens of the rule (the first MAX_WORDS of
\* them): an escaped byte is part of its token, the backslash is not.
C16_BackslashStaysInLine ==
    [][ pc = "wordsplit" =>
          /\ \A junk \in Stale : wordsplit(mem \o junk, words).c <= Len(mem)
          /\ nwords' = (IF Len(RefTokens) < MAX_WORDS THEN Len(RefTokens) ELSE MAX_WORDS)
          /\ \A i \in 0..(nwords' - 1) : words'[i] = RefTokens[i + 1] ]_vars

\* C17: a child whose stop the shell has collected has been sent SIGCONT:
\* no child is left stopped with its stop already returned by waitpid.
C17_CollectedStopsAreContinued ==
    \A p \in DOMAIN children : children[p].st = "stopped" => children[p].pend

\* C18: from the interruption of a read to the next read, $? and $! keep
\* their values and the input stays where it was.
C18_InterruptedReadKeepsState ==
    [][ \/ pc = "getline" /\ pc' = "smallsh"
        \/ pc = "smallsh" /\ environ[Q] # NULL
        => /\ environ'[Q] = environ[Q]
           /\ environ'[BANG] = environ[BANG]
           /\ fpos' = fpos ]_vars

\* C19: parse_command is left with at least one argument copied, so that
\* it touches the vector at indices 0..count only and does not fault, and
\* a command is dispatched with a string in argv[0].
C19_ArgvInBounds ==
    [][ /\ pc = "parse" =>
              /\ ParserView.argc >= 1
              /\ pc' = "execute"
              /\ words_argc' \in 0..nwords
              /\ words_argv'[0] \notin {NULL, UNINIT, BADPTR}
        /\ pc = "execute" => pc' # "crashed" ]_vars

\* C20: tokenization starts with every slot of words[] empty and gives at
\* most MAX_WORDS tokens, and the child's redirection loop reads words[]
\* below MAX_WORDS only.
C20_TokenArrayInBounds ==
    [][ /\ pc = "wordsplit" => words = NoWords /\ nwords' <= MAX_WORDS
        /\ pc = "expand" => nwords <= MAX_WORDS
        /\ pc = "execute" /\ pc' = "parent" =>
              \A b \in Beyond : child_redir(words, 0, b, {}).top < MAX_WORDS ]_vars

====
